---- MODULE Spec2Model ----
(***************************************************************************)
(* vlab_api_common: the access-control layer of http_auth.py.              *)
(*                                                                         *)
(* A claim value (a criterion of a rule, or a claim of a token) is a       *)
(* record [tag, l]: tag says what Python sees (None, a str/int scalar, a   *)
(* list, or a key the token dict does not have) and l holds the elements   *)
(* (the one element of a scalar).  The code only asks `in`, `==` and       *)
(* set-intersection of these values, which depend on the elements alone.   *)
(***************************************************************************)
EXTENDS Integers, Sequences, FiniteSets, TLC

\* ---------------------------------------------------------------- bounds
MaxVersion == 2
MaxLayers == 2
MaxClock == 12
MaxTimeout == 3
MaxPings == 3
MaxCalls == 3

\* ---------------------------------------------------------------- values
None == [tag |-> "none", l |-> {}]
Absent == [tag |-> "absent", l |-> {}]
Scalar(x) == [tag |-> "scalar", l |-> {x}]
List(S) == [tag |-> "list", l |-> S]

Usernames == {"bob", "sarah"}
Groups == {"some-group", "other-group"}
Roles == {"admin"}
Versions == 1..MaxVersion

\* the str or int a scalar holds
ValueOf(x) == CHOOSE e \in x.l : TRUE

Scalars(U) == {Scalar(x) : x \in U}
Lists(U) == {List(S) : S \in SUBSET U}
\* what a caller can pass for one criterion: None, a scalar or a list
Criteria(U) == {None} \cup Scalars(U) \cup Lists(U)

\* the parameters of acl_in_token after `token`, in the order locals() holds them
Keys == <<"username", "memberOf", "roles", "version">>

\* ------------------------------------------------------------ acl_in_token
\* One pass of the for loop from position i on.  seen lists the keys whose
\* claim the loop has looked up so far.  ret is "True", "False" or "KeyError"
\* (token[key] on a key the token lacks).
\* `value in token[key]` / `value == token[key]` for a str or int value (l.102-106)
scalar_matches(value, claim) ==
  IF claim.tag = "list" THEN value.l \subseteq claim.l ELSE value.l = claim.l

\* set(token[key]).intersection(set(value)) is non-empty (l.109)
lists_share_mut_subset(value, claim) == value.l \subseteq claim.l

lists_share(value, claim) == claim.l \cap value.l # {}

\* token[key] in value, for a list value and a scalar claim (l.113)
claim_in_list(value, claim) == claim.l \subseteq value.l

\* the for loop's else clause: no criterion returned (l.115-116)
for_else_mut_true == "True"

for_else == "False"

RECURSIVE acl_loop(_, _, _, _)
acl_loop_mut_list_returns(token, rule, i, seen) ==
  IF i > Len(Keys) THEN [ret |-> for_else, seen |-> seen]
  ELSE LET key == Keys[i]
           value == rule[key]
           claim == token[key]
           seen1 == Append(seen, key)
       IN IF value.tag = "none" THEN acl_loop(token, rule, i + 1, seen)
          ELSE IF claim.tag = "absent" THEN [ret |-> "KeyError", seen |-> seen1]
          ELSE IF value.tag = "scalar"
               THEN [ret |-> IF scalar_matches(value, claim) THEN "True" ELSE "False", seen |-> seen1]
          ELSE IF claim.tag = "list"
               THEN [ret |-> IF lists_share(value, claim) THEN "True" ELSE "False", seen |-> seen1]
          ELSE [ret |-> IF claim_in_list(value, claim) THEN "True" ELSE "False", seen |-> seen1]

acl_loop(token, rule, i, seen) ==
  IF i > Len(Keys) THEN [ret |-> for_else, seen |-> seen]
  ELSE LET key == Keys[i]
           value == rule[key]
           claim == token[key]
           seen1 == Append(seen, key)
       IN \* key == 'token' or value is None: continue
          IF value.tag = "none" THEN acl_loop(token, rule, i + 1, seen)
          \* every other branch reads token[key] first
          ELSE IF claim.tag = "absent" THEN [ret |-> "KeyError", seen |-> seen1]
          \* isinstance(value, str) or isinstance(value, int): return either way
          ELSE IF value.tag = "scalar"
               THEN [ret |-> IF scalar_matches(value, claim) THEN "True" ELSE "False", seen |-> seen1]
          \* both lists: return True on a common element, else go on with the loop
          ELSE IF claim.tag = "list"
               THEN IF lists_share(value, claim)
                    THEN [ret |-> "True", seen |-> seen1]
                    ELSE acl_loop(token, rule, i + 1, seen1)
          \* value is a list, the claim a scalar: return True when it is an element
          ELSE IF claim_in_list(value, claim)
               THEN [ret |-> "True", seen |-> seen1]
               ELSE acl_loop(token, rule, i + 1, seen1)

acl_in_token(token, rule) == acl_loop(token, rule, 1, <<>>)

\* ------------------------------------------------------- requires and deny
VLAB_URL == "https://localhost"

NoRule == [username |-> None, memberOf |-> None, roles |-> None, version |-> None]
NoToken == [username |-> Absent, memberOf |-> Absent, roles |-> Absent, version |-> Absent]
NoResponse == [kind |-> "none", status |-> 0, body |-> <<>>, link |-> <<>>]

\* what the wrapped view function returns
HandlerResponse == [kind |-> "handler", status |-> 200, body |-> <<"handler result">>, link |-> <<>>]

\* the Response built on ExpiredSignatureError (l.36-40)
NoSessionResponse_mut_no_link ==
  [kind |-> "Response", status |-> 401, body |-> <<"error", "No Valid Session Found">>,
   link |-> <<>>]

NoSessionResponse ==
  [kind |-> "Response", status |-> 401, body |-> <<"error", "No Valid Session Found">>,
   link |-> <<"<", VLAB_URL, "/api/1/auth", ">; rel=authorization">>]

\* return resp.content, resp.status (l.45)
VerifierResponse(v) ==
  [kind |-> "tuple", status |-> v.status, body |-> <<v.content>>, link |-> <<>>]

\* the 403 of l.52-53: 'user {} does not have access'.format(token['username'])
ForbiddenResponse(token) ==
  [kind |-> "tuple", status |-> 403,
   body |-> <<"error", "user ", ValueOf(token.username), " does not have access">>,
   link |-> <<>>]

Raised(exc) == [kind |-> "exception", status |-> 0, body |-> <<exc>>, link |-> <<>>]

\* the request's X-Auth header, by what jwt.decode makes of it: the claims, an
\* ExpiredSignatureError, or another InvalidTokenError (a bad signature; None,
\* which headers.get returns when the header is missing, is not a token either)
get_token_from_header(c) ==
  IF c.kind = "valid" THEN [raised |-> "none", token |-> c.token]
  ELSE IF c.kind = "expired" THEN [raised |-> "ExpiredSignatureError", token |-> NoToken]
  ELSE [raised |-> "InvalidTokenError", token |-> NoToken]

Event(name, i) == [ev |-> name, layer |-> i]

\* the rule match of requires: call func on a match, 403 otherwise (l.49-53)
requires_decide_mut_always(match) == "func"

requires_decide_mut_inverted(match) == IF match = "True" THEN "deny" ELSE "func"

requires_decide(match) == IF match = "True" THEN "func" ELSE "deny"

\* the rule match of deny: 403 on a match, call func otherwise (l.85-89)
deny_decide_mut_same(match) == IF match = "True" THEN "func" ELSE "deny"

deny_decide(match) == IF match = "True" THEN "deny" ELSE "func"

\* kwargs.get('token', None) is None (l.31, l.67)
needs_token_mut_always(kw) == TRUE

needs_token(kw) == kw.token = <<>>

\* verify is True and kwargs.get('verified', False) is False (l.42, l.78)
needs_verify_mut_always(L, kw) == L.verify

needs_verify(L, kw) == L.verify /\ kw.verified = FALSE

\* the verifier's answer lets the request through (l.44, l.80)
verifier_ok_mut_ignored(v) == TRUE

verifier_ok(v) == v.kind = "ok"

\* One call of a layer's inner(): L is the layer's decorator arguments, i its
\* position (1 = outermost), kw the keyword arguments it is called with, c the
\* request's credential, v what the verification endpoint answers.
\* next is "func" (the wrapped function is called with kwargs), "return" or
\* "raise" (resp is the result).
requires_inner(L, i, kw, c, v) ==
  LET fresh == needs_token(kw)
      got == get_token_from_header(c)
      ev1 == IF fresh THEN <<Event("get_token_from_header", i)>> ELSE <<>>
  IN IF fresh /\ got.raised = "ExpiredSignatureError"
     THEN [next |-> "return", kwargs |-> kw, events |-> ev1, resp |-> NoSessionResponse]
     ELSE IF fresh /\ got.raised # "none"
     THEN [next |-> "raise", kwargs |-> kw, events |-> ev1, resp |-> Raised(got.raised)]
     ELSE
     LET kw1 == IF fresh THEN [kw EXCEPT !.token = <<got.token>>] ELSE kw
         check == needs_verify(L, kw1)
         ev2 == IF check THEN ev1 \o <<Event("requests.get", i)>> ELSE ev1
     IN IF check /\ v.kind = "unreachable"
        THEN [next |-> "raise", kwargs |-> kw1, events |-> ev2, resp |-> Raised("ConnectionError")]
        ELSE IF check /\ ~verifier_ok(v)
        THEN [next |-> "return", kwargs |-> kw1, events |-> ev2, resp |-> VerifierResponse(v)]
        ELSE
        LET kw2 == IF check THEN [kw1 EXCEPT !.verified = TRUE] ELSE kw1
            token == kw2.token[1]
            match == acl_in_token(token, [L.rule EXCEPT !.roles = None])
            ev3 == ev2 \o <<Event("acl_in_token", i)>>
        IN IF match.ret = "KeyError"
           THEN [next |-> "raise", kwargs |-> kw2, events |-> ev3, resp |-> Raised("KeyError")]
           ELSE IF requires_decide(match.ret) = "func"
           THEN [next |-> "func", kwargs |-> kw2, events |-> ev3, resp |-> NoResponse]
           ELSE IF token.username.tag = "absent"
           THEN [next |-> "raise", kwargs |-> kw2, events |-> ev3, resp |-> Raised("KeyError")]
           ELSE [next |-> "return", kwargs |-> kw2, events |-> ev3, resp |-> ForbiddenResponse(token)]

deny_inner(L, i, kw, c, v) ==
  LET fresh == needs_token(kw)
      got == get_token_from_header(c)
      ev1 == IF fresh THEN <<Event("get_token_from_header", i)>> ELSE <<>>
  IN IF fresh /\ got.raised = "ExpiredSignatureError"
     THEN [next |-> "return", kwargs |-> kw, events |-> ev1, resp |-> NoSessionResponse]
     ELSE IF fresh /\ got.raised # "none"
     THEN [next |-> "raise", kwargs |-> kw, events |-> ev1, resp |-> Raised(got.raised)]
     ELSE
     LET kw1 == IF fresh THEN [kw EXCEPT !.token = <<got.token>>] ELSE kw
         check == needs_verify(L, kw1)
         ev2 == IF check THEN ev1 \o <<Event("requests.get", i)>> ELSE ev1
     IN IF check /\ v.kind = "unreachable"
        THEN [next |-> "raise", kwargs |-> kw1, events |-> ev2, resp |-> Raised("ConnectionError")]
        ELSE IF check /\ ~verifier_ok(v)
        THEN [next |-> "return", kwargs |-> kw1, events |-> ev2, resp |-> VerifierResponse(v)]
        ELSE
        LET kw2 == IF check THEN [kw1 EXCEPT !.verified = TRUE] ELSE kw1
            token == kw2.token[1]
            match == acl_in_token(token, [L.rule EXCEPT !.roles = None])
            ev3 == ev2 \o <<Event("acl_in_token", i)>>
        IN IF match.ret = "KeyError"
           THEN [next |-> "raise", kwargs |-> kw2, events |-> ev3, resp |-> Raised("KeyError")]
           ELSE IF deny_decide(match.ret) = "func"
           THEN [next |-> "func", kwargs |-> kw2, events |-> ev3, resp |-> NoResponse]
           ELSE IF token.username.tag = "absent"
           THEN [next |-> "raise", kwargs |-> kw2, events |-> ev3, resp |-> Raised("KeyError")]
           ELSE [next |-> "return", kwargs |-> kw2, events |-> ev3, resp |-> ForbiddenResponse(token)]

\* ------------------------------------------------------------------ state
VARIABLES
  aclPc,      \* "idle", "ready" (inputs chosen) or "returned"
  aclToken,   \* the token handed to acl_in_token
  aclRule,    \* its keyword arguments
  aclOut,     \* what the call produced
  layers,     \* the decorators on the view function, outermost first
  cred,       \* the request's X-Auth credential
  verifier,   \* what GET /api/1/auth answers for this request
  kwargs,     \* the keyword arguments handed from layer to layer
  depth,      \* the layer whose inner() is called next; Len(layers)+1 is the view
  pc,         \* "idle", "call" or "done"
  response,   \* what the outermost inner() returned, or the exception it raised
  log,        \* the calls made while serving the request, in order
  caller,     \* the call as the caller made it: positional and keyword arguments
  called,     \* the calls the view function received: [args, kwargs] each
  other,      \* a second request in flight through the same decorated function
  tok,        \* a token being issued and read back from the X-Auth header
  enc,        \* a call of get_encryption_data
  view,       \* a response passing through BaseView.after_request
  desc,       \* a call of a view function under describe(**schemas)
  ovf,        \* a call of vCenter.get_ovf_lease
  keep,       \* a KeepAlive thread and the thread that uses it in a with block
  vc,         \* the folders of a vCenter and the create_folder calls on it
  logs        \* the loggers of the logging module and the factory calls so far

aclVars == <<aclPc, aclToken, aclRule, aclOut>>
reqVars == <<layers, cred, verifier, kwargs, depth, pc, response, log, caller, called>>
vars == <<aclPc, aclToken, aclRule, aclOut, layers, cred, verifier, kwargs, depth, pc,
          response, log, caller, called, other, tok, enc, view, desc, ovf, keep, vc, logs>>

NoOut == [ret |-> "none", seen |-> <<>>]
\* extra holds the keyword arguments of the caller's own, by name
NoKwargs == [token |-> <<>>, verified |-> FALSE, extra |-> <<>>]
NoCaller == [args |-> <<>>, extra |-> <<>>]
NoCred == [kind |-> "none", token |-> NoToken]
NoVerifier == [kind |-> "none", status |-> 0, content |-> ""]
NoOther == [pc |-> "idle"]
NoTok == [pc |-> "idle"]
NoEnc == [pc |-> "idle"]
NoView == [pc |-> "idle"]
NoDesc == [pc |-> "idle"]
NoOvf == [pc |-> "idle"]
NoKeep == [pc |-> "idle"]
NoVc == [pc |-> "idle"]
NoLogs == [pc |-> "idle"]

\* what a step of the one subsystem leaves alone
vmVars == <<desc, ovf, keep, vc, logs>>
notAcl == <<reqVars, other, tok, enc, view, vmVars>>
notReq == <<aclVars, other, tok, enc, view, vmVars>>

\* tokens as the issuer builds them: username and version scalars, memberOf a
\* list; roles is optional
AclTokens ==
  [username : Scalars(Usernames), memberOf : Lists(Groups),
   roles : {Absent} \cup Lists(Roles), version : Scalars(Versions)]

AclRules ==
  [username : Criteria(Usernames), memberOf : Criteria(Groups),
   roles : Criteria(Roles), version : Criteria(Versions)]

AclIdle ==
  /\ aclPc = "idle"
  /\ aclToken = NoToken
  /\ aclRule = NoRule
  /\ aclOut = NoOut

ReqIdle ==
  /\ layers = <<>>
  /\ cred = NoCred
  /\ verifier = NoVerifier
  /\ kwargs = NoKwargs
  /\ depth = 0
  /\ pc = "idle"
  /\ response = NoResponse
  /\ log = <<>>
  /\ caller = NoCaller
  /\ called = <<>>

OtherIdle == other = NoOther
TokIdle == tok = NoTok
EncIdle == enc = NoEnc
ViewIdle == view = NoView
DescIdle == desc = NoDesc
OvfIdle == ovf = NoOvf
KeepIdle == keep = NoKeep
VcIdle == vc = NoVc
LogsIdle == logs = NoLogs
VmIdle == DescIdle /\ OvfIdle /\ KeepIdle /\ VcIdle /\ LogsIdle

\* ---------------------------------------------------- acl_in_token, alone
InitAcl ==
  /\ aclPc = "ready"
  /\ aclToken \in AclTokens
  /\ aclRule \in AclRules
  /\ aclOut = NoOut
  /\ ReqIdle
  /\ OtherIdle /\ TokIdle /\ EncIdle /\ ViewIdle
  /\ VmIdle

CallAcl ==
  /\ aclPc = "ready"
  /\ aclOut' = acl_in_token(aclToken, aclRule)
  /\ aclPc' = "returned"
  /\ UNCHANGED <<aclToken, aclRule>>
  /\ UNCHANGED notAcl

NextAcl == CallAcl

SpecAcl == InitAcl /\ [][NextAcl]_vars

\* ------------------------------------------- one request through the layers
\* tokens of generate_test_token (l.161-167): no roles claim
Tokens ==
  [username : Scalars(Usernames), memberOf : Lists(Groups),
   roles : {Absent}, version : Scalars(Versions)]

Creds ==
  {[kind |-> "valid", token |-> t] : t \in Tokens}
    \cup {[kind |-> "expired", token |-> NoToken], [kind |-> "invalid", token |-> NoToken],
          [kind |-> "missing", token |-> NoToken]}

Verifiers ==
  {[kind |-> "ok", status |-> 200, content |-> "session ok"],
   [kind |-> "fail", status |-> 401, content |-> "testing"],
   [kind |-> "fail", status |-> 500, content |-> "auth server error"],
   [kind |-> "unreachable", status |-> 0, content |-> ""]}

\* the keyword arguments requires and deny accept
DecoratorRules ==
  [username : Criteria(Usernames), memberOf : Criteria(Groups),
   roles : {None}, version : Criteria(Versions)]

\* the rules of the stacked layers
StackRules ==
  {NoRule,
   [NoRule EXCEPT !.version = Scalar(1)],
   [NoRule EXCEPT !.username = List({"bob"}), !.version = Scalar(1)],
   [NoRule EXCEPT !.memberOf = Scalar("some-group")],
   [NoRule EXCEPT !.username = Scalar("sarah")]}

LayersOf(rules) == [kind : {"requires", "deny"}, rule : rules, verify : BOOLEAN]

Stacks(n, rules) == UNION {[1..k -> LayersOf(rules)] : k \in 1..n}

InitRequest(stacks) ==
  /\ layers \in stacks
  /\ cred \in Creds
  /\ verifier \in Verifiers
  /\ kwargs = NoKwargs
  /\ depth = 1
  /\ pc = "call"
  /\ response = NoResponse
  /\ log = <<>>
  /\ caller = NoCaller
  /\ called = <<>>
  /\ AclIdle
  /\ OtherIdle /\ TokIdle /\ EncIdle /\ ViewIdle
  /\ VmIdle

\* the effect of one inner() call on the request
Step(r) ==
  /\ kwargs' = r.kwargs
  /\ log' = log \o r.events
  /\ IF r.next = "func"
     THEN depth' = depth + 1 /\ pc' = pc /\ response' = response
     ELSE depth' = depth /\ pc' = "done" /\ response' = r.resp
  /\ UNCHANGED <<layers, cred, verifier, caller, called>>
  /\ UNCHANGED notReq

RequiresInner ==
  /\ pc = "call"
  /\ depth <= Len(layers)
  /\ layers[depth].kind = "requires"
  /\ Step(requires_inner(layers[depth], depth, kwargs, cred, verifier))

DenyInner ==
  /\ pc = "call"
  /\ depth <= Len(layers)
  /\ layers[depth].kind = "deny"
  /\ Step(deny_inner(layers[depth], depth, kwargs, cred, verifier))

\* the view function itself, called as func(*args, **kwargs) by the innermost
\* layer; every layer returns its result unchanged
Func_mut_drops_args ==
  /\ pc = "call"
  /\ depth = Len(layers) + 1
  /\ log' = Append(log, Event("func", depth))
  /\ called' = Append(called, [args |-> <<>>, kwargs |-> kwargs])
  /\ response' = HandlerResponse
  /\ pc' = "done"
  /\ UNCHANGED <<layers, cred, verifier, kwargs, depth, caller>>
  /\ UNCHANGED notReq

Func ==
  /\ pc = "call"
  /\ depth = Len(layers) + 1
  /\ log' = Append(log, Event("func", depth))
  /\ called' = Append(called, [args |-> caller.args, kwargs |-> kwargs])
  /\ response' = HandlerResponse
  /\ pc' = "done"
  /\ UNCHANGED <<layers, cred, verifier, kwargs, depth, caller>>
  /\ UNCHANGED notReq

Next == RequiresInner \/ DenyInner \/ Func

\* one decorator, any rule
Init == InitRequest(Stacks(1, DecoratorRules))

Spec == Init /\ [][Next]_vars

\* up to MaxLayers decorators
InitStack == InitRequest(Stacks(MaxLayers, StackRules))

SpecStack == InitStack /\ [][Next]_vars

\* ------------------------------------ one decorator, the caller's arguments
\* what Flask hands the view: the view object, and a variable of the URL
Callers == [args : {<<>>, <<"self">>}, extra : {<<>>, <<"vm_name">>}]

InitCall ==
  /\ layers \in Stacks(1, StackRules)
  /\ cred \in Creds
  /\ verifier \in Verifiers
  /\ caller \in Callers
  /\ kwargs = [NoKwargs EXCEPT !.extra = caller.extra]
  /\ depth = 1
  /\ pc = "call"
  /\ response = NoResponse
  /\ log = <<>>
  /\ called = <<>>
  /\ AclIdle
  /\ OtherIdle /\ TokIdle /\ EncIdle /\ ViewIdle
  /\ VmIdle

SpecCall == InitCall /\ [][Next]_vars

\* --------------------- one decorator, a caller that passes token or verified
\* inner(*args, **kwargs) reads kwargs['token'] and kwargs['verified'] from the
\* keyword arguments it is called with (l.31, l.42), which are the caller's.
\* The token a caller passes is a dict of claims of its own making; the value
\* it passes as verified is any value that is not False.
CallerTokens ==
  {[username |-> Scalar("sarah"), memberOf |-> List({"some-group"}),
    roles |-> Absent, version |-> Scalar(1)]}

KeywordCallers ==
  [args : {<<>>}, extra : {<<>>},
   token : {<<>>} \cup {<<t>> : t \in CallerTokens}, verified : BOOLEAN]

InitKeyword ==
  /\ layers \in Stacks(1, StackRules)
  /\ cred \in Creds
  /\ verifier \in Verifiers
  /\ caller \in KeywordCallers
  /\ kwargs = [token |-> caller.token, verified |-> caller.verified, extra |-> caller.extra]
  /\ depth = 1
  /\ pc = "call"
  /\ response = NoResponse
  /\ log = <<>>
  /\ called = <<>>
  /\ AclIdle
  /\ OtherIdle /\ TokIdle /\ EncIdle /\ ViewIdle
  /\ VmIdle

SpecKeyword == InitKeyword /\ [][Next]_vars

\* ------------------------------ two requests through one decorated function
\* The decorator's closure (layers) is shared and never written; kwargs is the
\* dict of the one call.  `other` holds the second call's own state.
TwoRules == {NoRule, [NoRule EXCEPT !.username = Scalar("bob")]}

TwoCreds ==
  {[kind |-> "valid",
    token |-> [username |-> Scalar(u), memberOf |-> List({"some-group"}),
               roles |-> Absent, version |-> Scalar(1)]] : u \in Usernames}
    \cup {[kind |-> "expired", token |-> NoToken]}

TwoVerifiers == {v \in Verifiers : v.status \in {200, 401}}

InitTwo ==
  /\ layers \in Stacks(MaxLayers, TwoRules)
  /\ cred \in TwoCreds
  /\ verifier \in TwoVerifiers
  /\ caller = NoCaller
  /\ kwargs = NoKwargs
  /\ depth = 1
  /\ pc = "call"
  /\ response = NoResponse
  /\ log = <<>>
  /\ called = <<>>
  /\ \E c \in TwoCreds \ {cred}, v \in TwoVerifiers :
       other = [cred |-> c, verifier |-> v, kwargs |-> NoKwargs, depth |-> 1,
                pc |-> "call", response |-> NoResponse, log |-> <<>>, called |-> <<>>]
  /\ AclIdle
  /\ TokIdle /\ EncIdle /\ ViewIdle
  /\ VmIdle

\* the keyword arguments the second call's layers see: its own
OtherKwargs_mut_shared == kwargs

OtherKwargs == other.kwargs

OtherStep(r) ==
  /\ other' = [other EXCEPT !.kwargs = r.kwargs,
                            !.log = @ \o r.events,
                            !.depth = IF r.next = "func" THEN @ + 1 ELSE @,
                            !.pc = IF r.next = "func" THEN @ ELSE "done",
                            !.response = IF r.next = "func" THEN @ ELSE r.resp]
  /\ UNCHANGED <<reqVars, aclVars, tok, enc, view, vmVars>>

OtherRequiresInner ==
  /\ other.pc = "call"
  /\ other.depth <= Len(layers)
  /\ layers[other.depth].kind = "requires"
  /\ OtherStep(requires_inner(layers[other.depth], other.depth, OtherKwargs,
                              other.cred, other.verifier))

OtherDenyInner ==
  /\ other.pc = "call"
  /\ other.depth <= Len(layers)
  /\ layers[other.depth].kind = "deny"
  /\ OtherStep(deny_inner(layers[other.depth], other.depth, OtherKwargs,
                          other.cred, other.verifier))

OtherFunc ==
  /\ other.pc = "call"
  /\ other.depth = Len(layers) + 1
  /\ other' = [other EXCEPT !.log = Append(@, Event("func", other.depth)),
                            !.called = Append(@, [args |-> <<>>, kwargs |-> OtherKwargs]),
                            !.response = HandlerResponse,
                            !.pc = "done"]
  /\ UNCHANGED <<reqVars, aclVars, tok, enc, view, vmVars>>

NextTwo ==
  \/ RequiresInner \/ DenyInner \/ Func
  \/ OtherRequiresInner \/ OtherDenyInner \/ OtherFunc

SpecTwo == InitTwo /\ [][NextTwo]_vars

\* -------------------------------------- a token issued and read back (jwt)
\* decode(..., leeway=10) in get_token_from_header
Leeway == 10
\* the defaults of generate_test_token; DefaultExpiresAt stands for
\* 9999999999999, later than every clock value with its leeway
DefaultIssuedAt == 0
DefaultExpiresAt == MaxClock + Leeway + 1
Clock == 0..MaxClock

AUTH_TOKEN_ISSUER == VLAB_URL
\* get_encryption_data() outside production
AUTH_TOKEN_PUB_KEY == "testing"
\* int(environ.get('AUTH_TOKEN_VERSION', 1)), the default of requires' version
AUTH_TOKEN_VERSION == 1
AUTH_TOKEN_ALGORITHM == "HS256"

Ips == {"127.0.0.1", "8.8.8.8"}

\* the claims dict of generate_test_token; memberOf is <<>> for None, else <<list>>
test_token_claims_mut_drops_groups(username, memberOf, version, expires_at, issued_at) ==
  [exp |-> expires_at, iat |-> issued_at, iss |-> AUTH_TOKEN_ISSUER,
   username |-> username, version |-> version, memberOf |-> <<"some-group">>]

test_token_claims(username, memberOf, version, expires_at, issued_at) ==
  [exp |-> expires_at, iat |-> issued_at, iss |-> AUTH_TOKEN_ISSUER,
   username |-> username, version |-> version,
   memberOf |-> IF memberOf = <<>> THEN <<"some-group">> ELSE memberOf[1]]

\* a version 2 token as the auth service issues it, bound to the client's address
v2_token_claims(client_ip, expires_at) ==
  [exp |-> expires_at, iss |-> AUTH_TOKEN_ISSUER, version |-> 2, client_ip |-> client_ip]

\* the JSON payload of a token: numbers, strings and arrays of strings
Num(n) == [j |-> "number", v |-> n]
Str(x) == [j |-> "string", v |-> x]
Arr(a) == [j |-> "array", v |-> a]

json_dumps(c) ==
  IF "client_ip" \in DOMAIN c
  THEN [exp |-> Num(c.exp), iss |-> Str(c.iss), version |-> Num(c.version),
        client_ip |-> Str(c.client_ip)]
  ELSE [exp |-> Num(c.exp), iat |-> Num(c.iat), iss |-> Str(c.iss),
        username |-> Str(c.username), version |-> Num(c.version),
        memberOf |-> Arr(c.memberOf)]

json_loads(p) == [k \in DOMAIN p |-> p[k].v]

\* jwt.encode: the payload, signed with the key under the algorithm
encode(claims, key, algorithm) ==
  [payload |-> json_dumps(claims), key |-> key, alg |-> algorithm]

\* jwt.decode at time now: the signature, then exp (with the leeway), then iss
decode(jwt, key, algorithm, issuer, leeway, now) ==
  IF jwt.key # key \/ jwt.alg # algorithm
  THEN [raised |-> "InvalidSignatureError", claims |-> <<>>]
  ELSE LET claims == json_loads(jwt.payload)
       IN IF claims.exp + leeway < now
          THEN [raised |-> "ExpiredSignatureError", claims |-> <<>>]
          ELSE IF claims.iss # issuer
          THEN [raised |-> "InvalidIssuerError", claims |-> <<>>]
          ELSE [raised |-> "none", claims |-> <<claims>>]

\* get_token_from_header on a request whose X-Auth header holds jwt; it reads
\* nothing else of the request
token_from_header(req, now) ==
  decode(req.x_auth, AUTH_TOKEN_PUB_KEY, AUTH_TOKEN_ALGORITHM, AUTH_TOKEN_ISSUER, Leeway, now)

GroupLists ==
  {<<>>, <<"some-group">>, <<"other-group">>, <<"some-group", "other-group">>,
   <<"other-group", "some-group">>}

Requests == [forwarded : {<<>>, <<"127.0.0.1">>, <<"8.8.8.8", "127.0.0.1">>}, remote_addr : Ips]

InitToken ==
  /\ \E u \in {"pat", "bob"}, g \in {<<>>} \cup {<<l>> : l \in GroupLists}, ver \in Versions,
        e \in {1, DefaultExpiresAt}, now \in Clock, r \in Requests, ip \in Ips,
        who \in {"test", "auth"} :
       /\ who = "auth" => (u = "pat" /\ g = <<>> /\ ver = 2 /\ now = 0)
       /\ who = "test" => (ip = "127.0.0.1" /\ r.forwarded = <<>>)
       /\ tok = [pc |-> "ready", issuer |-> who, username |-> u, memberOf |-> g,
                 version |-> ver, expires_at |-> e, issued_at |-> DefaultIssuedAt,
                 client_ip |-> ip, now |-> now, request |-> r, x_auth |-> <<>>,
                 out |-> [raised |-> "none", claims |-> <<>>]]
  /\ AclIdle /\ ReqIdle
  /\ OtherIdle /\ EncIdle /\ ViewIdle
  /\ VmIdle

GenerateTestToken ==
  /\ tok.pc = "ready"
  /\ tok.issuer = "test"
  /\ tok' = [tok EXCEPT !.pc = "issued",
                        !.x_auth = <<encode(test_token_claims(tok.username, tok.memberOf,
                                                              tok.version, tok.expires_at,
                                                              tok.issued_at),
                                            AUTH_TOKEN_PUB_KEY, AUTH_TOKEN_ALGORITHM)>>]
  /\ UNCHANGED <<aclVars, reqVars, other, enc, view, vmVars>>

IssueV2Token ==
  /\ tok.pc = "ready"
  /\ tok.issuer = "auth"
  /\ tok' = [tok EXCEPT !.pc = "issued",
                        !.x_auth = <<encode(v2_token_claims(tok.client_ip, tok.expires_at),
                                            AUTH_TOKEN_PUB_KEY, AUTH_TOKEN_ALGORITHM)>>]
  /\ UNCHANGED <<aclVars, reqVars, other, enc, view, vmVars>>

GetTokenFromHeader ==
  /\ tok.pc = "issued"
  /\ tok' = [tok EXCEPT !.pc = "read",
                        !.out = token_from_header(
                                  [forwarded |-> tok.request.forwarded,
                                   remote_addr |-> tok.request.remote_addr,
                                   x_auth |-> tok.x_auth[1]], tok.now)]
  /\ UNCHANGED <<aclVars, reqVars, other, enc, view, vmVars>>

NextToken == GenerateTestToken \/ IssueV2Token \/ GetTokenFromHeader

SpecToken == InitToken /\ [][NextToken]_vars

\* ------------------------------------------------------ get_encryption_data
\* for _ in range(10)
Retries == 10

\* the loop has another iteration after n of them
range_has_next_mut_eleven(n) == n <= Retries

range_has_next(n) == n < Retries

KeyData == [key : {"PUBLIC KEY", "OTHER KEY"}, algorithm : {"RS256", "HS256"}, format : {"pem"}]
NoKey == [key |-> "", algorithm |-> "", format |-> ""]

\* what one requests.get of /api/1/auth/key can meet: no connection, an HTTP
\* error status, a success status with a body that is not JSON, or the key
ServerAnswers ==
  {[kind |-> "refused", data |-> NoKey], [kind |-> "http_error", data |-> NoKey],
   [kind |-> "not_json", data |-> NoKey]}
    \cup {[kind |-> "ok", data |-> d] : d \in KeyData}

InitEnc ==
  /\ \E p \in {"unset", "false", "true", "beta"} :
       enc = [pc |-> "start", production |-> p, verify |-> "unset", attempts |-> 0,
              slept |-> 0, answers |-> <<>>, out |-> [kind |-> "none", value |-> NoKey]]
  /\ AclIdle /\ ReqIdle
  /\ OtherIdle /\ TokIdle /\ ViewIdle
  /\ VmIdle

\* l.33-40: the local dev box returns at once; else verify is chosen
EncStart ==
  /\ enc.pc = "start"
  /\ enc' = IF enc.production \notin {"true", "beta"}
            THEN [enc EXCEPT !.pc = "returned",
                             !.out = [kind |-> "return",
                                      value |-> [key |-> "testing", algorithm |-> "HS256",
                                                 format |-> "string"]]]
            ELSE [enc EXCEPT !.pc = "loop",
                             !.verify = IF enc.production = "beta" THEN "False" ELSE "True"]
  /\ UNCHANGED <<aclVars, reqVars, other, tok, view, vmVars>>

\* l.43-50: one iteration's requests.get and what follows it
EncRequest ==
  /\ enc.pc = "loop"
  /\ range_has_next(enc.attempts)
  /\ \E a \in ServerAnswers :
       enc' = [enc EXCEPT
                 !.attempts = @ + 1,
                 !.answers = Append(@, a),
                 !.pc = CASE a.kind = "refused" -> "sleep"
                          [] a.kind = "ok" -> "returned"
                          [] OTHER -> "raised",
                 !.out = CASE a.kind = "refused" -> @
                           [] a.kind = "ok" -> [kind |-> "return", value |-> a.data]
                           [] a.kind = "http_error" -> [kind |-> "HTTPError", value |-> NoKey]
                           [] OTHER -> [kind |-> "ValueError", value |-> NoKey]]
  /\ UNCHANGED <<aclVars, reqVars, other, tok, view, vmVars>>

\* l.45-46: except ConnectionError: time.sleep(1)
EncSleep ==
  /\ enc.pc = "sleep"
  /\ enc' = [enc EXCEPT !.slept = @ + 1, !.pc = "loop"]
  /\ UNCHANGED <<aclVars, reqVars, other, tok, view, vmVars>>

\* l.51-53: the for loop's else clause
EncGiveUp ==
  /\ enc.pc = "loop"
  /\ ~range_has_next(enc.attempts)
  /\ enc' = [enc EXCEPT !.pc = "raised", !.out = [kind |-> "RuntimeError", value |-> NoKey]]
  /\ UNCHANGED <<aclVars, reqVars, other, tok, view, vmVars>>

NextEnc == EncStart \/ EncRequest \/ EncSleep \/ EncGiveUp

SpecEnc == InitEnc /\ [][NextEnc]_vars

\* --------------------------------------------------- BaseView.after_request
\* A JSON object is a function from BodyKeys to its value as JSON text, or
\* Missing for a key it does not have.
BodyKeys == {"error", "content", "params", "user", "extra"}
Missing == "<no key>"
Objects == [BodyKeys -> {Missing, "set by the view"}]

\* dict(request.args), as JSON text
QueryArgs == {"{}", "{\"describe\":[\"true\"]}"}

\* base = {'error': None, 'content': {}, 'params': dict(request.args)}
base_response(args) ==
  [k \in BodyKeys |->
     CASE k = "error" -> "null" [] k = "content" -> "{}" [] k = "params" -> args
       [] OTHER -> Missing]

\* data.pop('user', 'unset'): what is popped, and what is left
dict_pop(data, key, default) ==
  [value |-> IF data[key] = Missing THEN default ELSE data[key],
   rest |-> [data EXCEPT ![key] = Missing]]

\* base.update(data)
dict_update_mut_defaults_win(base, data) ==
  [k \in BodyKeys |-> IF base[k] # Missing THEN base[k] ELSE data[k]]

dict_update(base, data) ==
  [k \in BodyKeys |-> IF data[k] # Missing THEN data[k] ELSE base[k]]

EmptyObject == [k \in BodyKeys |-> Missing]

\* a body: a JSON object, JSON of another kind (an array, a string, a number),
\* or text that is not JSON
Bodies ==
  {[kind |-> "object", data |-> d] : d \in Objects}
    \cup {[kind |-> "json_other", data |-> EmptyObject], [kind |-> "not_json", data |-> EmptyObject]}

Responses ==
  [body : Bodies, status_code : {200, 206, 404}, content_type : {"text/html", "application/json"},
   link : {<<>>}]

\* after_request(self, name, response) with the request it answers; result is
\* the response returned or the exception raised, logged what logger.info got
after_request(resp, req) ==
  IF resp.body.kind = "not_json"
  THEN [raised |-> "none", response |-> resp, logged |-> <<>>]
  ELSE IF resp.body.kind = "json_other"
  THEN [raised |-> "AttributeError", response |-> resp, logged |-> <<>>]
  ELSE LET base == base_response(req.args)
           popped == dict_pop(resp.body.data, "user", "unset")
           quiet == req.poll /\ resp.status_code = 206
       IN [raised |-> "none",
           response |-> [resp EXCEPT
                           !.body = [kind |-> "object", data |-> dict_update(base, popped.rest)],
                           !.content_type = "application/json",
                           !.link = <<"<", VLAB_URL, req.route_base, "?describe=true>; rel=help">>],
           logged |-> IF quiet THEN <<>> ELSE <<popped.value>>]

InitView ==
  /\ \E r \in Responses, a \in QueryArgs, p \in BOOLEAN :
       view = [pc |-> "handled", response |-> r,
               request |-> [args |-> a, poll |-> p, route_base |-> "/api/1/foo"],
               out |-> [raised |-> "none", response |-> r, logged |-> <<>>]]
  /\ AclIdle /\ ReqIdle
  /\ OtherIdle /\ TokIdle /\ EncIdle
  /\ VmIdle

AfterRequest ==
  /\ view.pc = "handled"
  /\ view' = [view EXCEPT !.pc = "sent", !.out = after_request(view.response, view.request)]
  /\ UNCHANGED <<aclVars, reqVars, other, tok, enc, vmVars>>

NextView == AfterRequest

SpecView == InitView /\ [][NextView]_vars

\* ------------------------------------------------------ describe(**schemas)
\* A keyword of describe is the sequence of the pieces of its name between
\* underscores: get is <<"get">>, get_args is <<"get", "args">>.  Its value,
\* a schema, is written as the keyword itself; <<>> is the schema {}.
Methods == {"get", "post"}
SchemaKeywords == {<<m>> : m \in Methods} \cup {<<m, "args">> : m \in Methods}

\* every order in which up to all of the keywords can be given
RECURSIVE Orders(_)
Orders(K) ==
  {<<>>} \cup UNION {{<<k>> \o rest : rest \in Orders(K \ {k})} : k \in K}

\* method.endswith('args')
ends_with_args(method) == method[Len(method)] = "args"

\* default = {'body': {}, 'response': v1_RESPONSE, 'args': {}}
describe_default == [body |-> <<>>, response |-> "v1_RESPONSE", args |-> <<>>]

\* the_schema.setdefault(action, deepcopy(default)); the_schema nests an entry
\* as <<entry>>, <<>> for a key it does not have
setdefault(the_schema, action) ==
  IF the_schema[action] = <<>> THEN [the_schema EXCEPT ![action] = <<describe_default>>]
  ELSE the_schema

\* one pass of `for method in schemas` (l.145-152)
describe_step_mut_args_to_body(the_schema, method) ==
  IF ends_with_args(method)
  THEN LET action == method[1]
       IN [setdefault(the_schema, action) EXCEPT ![action][1].body = method]
  ELSE [setdefault(the_schema, method[1]) EXCEPT ![method[1]][1].body = method]

describe_step(the_schema, method) ==
  IF ends_with_args(method)
  THEN LET action == method[1]
       IN [setdefault(the_schema, action) EXCEPT ![action][1].args = method]
  ELSE [setdefault(the_schema, method[1]) EXCEPT ![method[1]][1].body = method]

RECURSIVE describe_loop(_, _, _)
describe_loop(schemas, i, the_schema) ==
  IF i > Len(schemas) THEN the_schema
  ELSE describe_loop(schemas, i + 1, describe_step(the_schema, schemas[i]))

EmptySchema == [m \in Methods |-> <<>>]

\* inner(*args, **kwargs) of describe, on a request with or without the
\* describe query argument
describe_inner(schemas, asked) ==
  IF asked
  THEN [kind |-> "tuple", status |-> 200, content |-> describe_loop(schemas, 1, EmptySchema),
        content_type |-> "application/json", func |-> 0]
  ELSE [kind |-> "handler", status |-> 200, content |-> EmptySchema,
        content_type |-> "", func |-> 1]

InitDesc ==
  /\ \E sch \in Orders(SchemaKeywords), asked \in BOOLEAN :
       desc = [pc |-> "call", schemas |-> sch, asked |-> asked,
               out |-> [kind |-> "none", status |-> 0, content |-> EmptySchema,
                        content_type |-> "", func |-> 0]]
  /\ AclIdle /\ ReqIdle
  /\ OtherIdle /\ TokIdle /\ EncIdle /\ ViewIdle
  /\ OvfIdle /\ KeepIdle /\ VcIdle /\ LogsIdle

DescribeInner ==
  /\ desc.pc = "call"
  /\ desc' = [desc EXCEPT !.pc = "done", !.out = describe_inner(desc.schemas, desc.asked)]
  /\ UNCHANGED <<aclVars, reqVars, other, tok, enc, view, ovf, keep, vc, logs>>

NextDesc == DescribeInner

SpecDesc == InitDesc /\ [][NextDesc]_vars

\* ---------------------------------------------------- vCenter.get_ovf_lease
\* the states of an import lease (vim.HttpNfcLease.State)
LeaseStates == {"initializing", "ready", "done", "error"}

\* lease.state == vim.HttpNfcLease.State.ready
lease_ready_mut_not_error(state) == state # "error"

lease_ready(state) == state = "ready"

\* the call after r_pool.ImportVApp has handed out the lease (l.206); seen
\* lists what each poll found
InitOvf ==
  /\ \E t \in 0..MaxTimeout :
       ovf = [pc |-> "loop", timeout |-> t, polls |-> 0, seen |-> <<>>, slept |-> 0,
              out |-> "none"]
  /\ AclIdle /\ ReqIdle
  /\ OtherIdle /\ TokIdle /\ EncIdle /\ ViewIdle
  /\ DescIdle /\ KeepIdle /\ VcIdle /\ LogsIdle

\* one pass of `for _ in range(timeout)`: read lease.state (l.207-211)
OvfPoll ==
  /\ ovf.pc = "loop"
  /\ ovf.polls < ovf.timeout
  /\ \E st \in LeaseStates :
       ovf' = [ovf EXCEPT !.polls = @ + 1,
                          !.seen = Append(@, st),
                          !.pc = IF lease_ready(st) THEN "returned" ELSE "sleep",
                          !.out = IF lease_ready(st) THEN "lease" ELSE @]
  /\ UNCHANGED <<aclVars, reqVars, other, tok, enc, view, desc, keep, vc, logs>>

\* time.sleep(1) (l.211)
OvfSleep ==
  /\ ovf.pc = "sleep"
  /\ ovf' = [ovf EXCEPT !.slept = @ + 1, !.pc = "loop"]
  /\ UNCHANGED <<aclVars, reqVars, other, tok, enc, view, desc, keep, vc, logs>>

\* the for loop's else clause (l.212-214)
OvfGiveUp ==
  /\ ovf.pc = "loop"
  /\ ~(ovf.polls < ovf.timeout)
  /\ ovf' = [ovf EXCEPT !.pc = "raised", !.out = "RuntimeError"]
  /\ UNCHANGED <<aclVars, reqVars, other, tok, enc, view, desc, keep, vc, logs>>

NextOvf == OvfPoll \/ OvfSleep \/ OvfGiveUp

SpecOvf == InitOvf /\ [][NextOvf]_vars

\* ---------------------------------------------------------------- KeepAlive
\* Two threads share the KeepAlive object: the one that runs run() and the
\* one that enters and leaves `with KeepAlive(lease)`.  tpc is where run() is
\* ("unstarted", "while", "sleep", "ping", "state", "ended"), mpc where the
\* with block is ("new", "inside", "cleared", "completed", "joined", or
\* "raised" when HttpNfcLeaseComplete raised).  A call on the lease returns
\* or raises, and lease.state reads any lease state.
\* `while self.keep_running`
loop_continues_mut_forever(k) == TRUE

loop_continues(k) == k.keep_running

\* self.lease.state == vim.HttpNfcLease.State.done
lease_done_mut_never(state) == FALSE

lease_done(state) == state = "done"

\* the bare `except:` of run (l.371) catches whatever a lease call raises
except_catches(exc) == TRUE

InitKeep ==
  /\ keep = [keep_running |-> TRUE, tpc |-> "unstarted", mpc |-> "new", iters |-> 0,
             pings |-> 0, last |-> "none", escaped |-> FALSE, completeCalled |-> FALSE,
             pingsAfterClear |-> 0, pingsAfterComplete |-> 0]
  /\ AclIdle /\ ReqIdle
  /\ OtherIdle /\ TokIdle /\ EncIdle /\ ViewIdle
  /\ DescIdle /\ OvfIdle /\ VcIdle /\ LogsIdle

notKeep == <<aclVars, reqVars, other, tok, enc, view, desc, ovf, vc, logs>>

\* __enter__: self.start()
KeepEnter ==
  /\ keep.mpc = "new"
  /\ keep' = [keep EXCEPT !.mpc = "inside", !.tpc = "while"]
  /\ UNCHANGED notKeep

\* the loop condition of run (l.364); the thread is followed for MaxPings
\* iterations
KeepWhile ==
  /\ keep.tpc = "while"
  /\ IF loop_continues(keep)
     THEN /\ keep.iters < MaxPings
          /\ keep' = [keep EXCEPT !.tpc = "sleep", !.iters = @ + 1]
     ELSE keep' = [keep EXCEPT !.tpc = "ended"]
  /\ UNCHANGED notKeep

\* time.sleep(5) (l.365)
KeepSleep ==
  /\ keep.tpc = "sleep"
  /\ keep' = [keep EXCEPT !.tpc = "ping"]
  /\ UNCHANGED notKeep

\* self.lease.HttpNfcLeaseProgress(50) inside try / except (l.367, l.371-373)
KeepPing ==
  /\ keep.tpc = "ping"
  /\ \E raises \in BOOLEAN :
       keep' = [keep EXCEPT
                  !.pings = @ + 1,
                  !.pingsAfterClear = IF keep.mpc \in {"new", "inside"} THEN @ ELSE @ + 1,
                  !.pingsAfterComplete = IF keep.completeCalled THEN @ + 1 ELSE @,
                  !.last = IF raises THEN "ping raised" ELSE "ping ok",
                  !.escaped = raises /\ ~except_catches("ping raised"),
                  !.keep_running = IF raises /\ except_catches("ping raised") THEN FALSE ELSE @,
                  !.tpc = IF raises THEN "ended" ELSE "state"]
  /\ UNCHANGED notKeep

\* if self.lease.state == done: keep_running = False; break (l.368-373)
KeepState ==
  /\ keep.tpc = "state"
  /\ \E st \in LeaseStates \cup {"raise"} :
       LET stop == st = "raise" \/ lease_done(st)
       IN keep' = [keep EXCEPT
                     !.last = IF st = "raise" THEN "state raised"
                              ELSE IF st = "done" THEN "found done" ELSE "not done",
                     !.escaped = st = "raise" /\ ~except_catches("state raised"),
                     !.keep_running = IF stop /\ (st = "raise" => except_catches("state raised"))
                                      THEN FALSE ELSE @,
                     !.tpc = IF stop THEN "ended" ELSE "while"]
  /\ UNCHANGED notKeep

\* __exit__: self.keep_running = False (l.379)
KeepExitClear ==
  /\ keep.mpc = "inside"
  /\ keep' = [keep EXCEPT !.keep_running = FALSE, !.mpc = "cleared"]
  /\ UNCHANGED notKeep

\* __exit__: self.lease.HttpNfcLeaseComplete() (l.380)
KeepExitComplete ==
  /\ keep.mpc = "cleared"
  /\ \E raises \in BOOLEAN :
       keep' = [keep EXCEPT !.completeCalled = TRUE,
                           !.mpc = IF raises THEN "raised" ELSE "completed"]
  /\ UNCHANGED notKeep

\* __exit__: self.join() returns once run() has ended (l.381)
KeepExitJoin ==
  /\ keep.mpc = "completed"
  /\ keep.tpc = "ended"
  /\ keep' = [keep EXCEPT !.mpc = "joined"]
  /\ UNCHANGED notKeep

KeepThread == KeepWhile \/ KeepSleep \/ KeepPing \/ KeepState

NextKeep ==
  \/ KeepEnter \/ KeepWhile \/ KeepSleep \/ KeepPing \/ KeepState
  \/ KeepExitClear \/ KeepExitComplete \/ KeepExitJoin

SpecKeep == InitKeep /\ [][NextKeep]_vars

\* the thread of run() is scheduled, its sleep and its lease calls return, and
\* join returns when the thread has ended
SpecKeepFair == SpecKeep /\ WF_vars(KeepThread) /\ WF_vars(KeepExitJoin)

\* ---------------------------------------------------------------- create_folder
\* The inventory of vCenter is the sequence of its folders, each with its name
\* and the place in the sequence of its parent folder (0 for the root folder).
FolderNames == {"DS-IIQs", "bob"}

Folder(name, parent) == [name |-> name, parent |-> parent]

\* inventories create_folder is called on: vCenter keeps the names within one
\* folder distinct, and allows the same name under different parents
Inventories ==
  { <<>>,
    <<Folder("DS-IIQs", 0)>>,
    <<Folder("bob", 0)>>,
    <<Folder("DS-IIQs", 0), Folder("bob", 1)>>,
    <<Folder("DS-IIQs", 0), Folder("DS-IIQs", 1)>> }

\* the items of the view whose name is the one looked for (get_by_name)
named(folders, name) == {i \in DOMAIN folders : folders[i].name = name}

\* parent_directory.childEntity
childEntity(folders, parent) == {i \in DOMAIN folders : folders[i].parent = parent}

\* for entity in parent_directory.childEntity: if entity.name == new_folder: break
has_child_mut_never(folders, parent, new_folder) == FALSE

has_child(folders, parent, new_folder) ==
  \E i \in childEntity(folders, parent) : folders[i].name = new_folder

\* parent_directory.CreateFolder(new_folder)
CreateFolder(folders, parent, new_folder) == Append(folders, Folder(new_folder, parent))

NoCall == [kind |-> "none"]

InitVc ==
  /\ vc \in {[pc |-> "connected", folders |-> inv, calls |-> 0, last |-> NoCall] : inv \in Inventories}
  /\ AclIdle /\ ReqIdle
  /\ OtherIdle /\ TokIdle /\ EncIdle /\ ViewIdle
  /\ DescIdle /\ OvfIdle /\ KeepIdle /\ LogsIdle

\* create_folder(new_folder, parent_dir): get_by_name returns the first item of
\* the view with the parent's name, and the order of the view is vCenter's
create_folder ==
  /\ vc.pc # "idle"
  /\ vc.calls < MaxCalls
  /\ \E new_folder \in FolderNames, parent_dir \in FolderNames :
       IF named(vc.folders, parent_dir) = {}
       THEN vc' = [vc EXCEPT !.calls = @ + 1,
                             !.last = [kind |-> "ValueError", new_folder |-> new_folder,
                                       parent_dir |-> parent_dir, parent |-> 0,
                                       creates |-> 0, before |-> vc.folders]]
       ELSE \E parent \in named(vc.folders, parent_dir) :
              LET leap == ~has_child(vc.folders, parent, new_folder)
              IN vc' = [vc EXCEPT
                          !.calls = @ + 1,
                          !.folders = IF leap THEN CreateFolder(@, parent, new_folder) ELSE @,
                          !.last = [kind |-> "returned", new_folder |-> new_folder,
                                    parent_dir |-> parent_dir, parent |-> parent,
                                    creates |-> IF leap THEN 1 ELSE 0,
                                    before |-> vc.folders]]
  /\ UNCHANGED <<aclVars, reqVars, other, tok, enc, view, desc, ovf, keep, logs>>

NextVc == create_folder

SpecVc == InitVc /\ [][NextVc]_vars

\* ---------------------------------------------------------------- std_logger
\* logging keeps one logger per name; each has a level and a list of handlers.
LoggerNames == {"vlab", "task-1"}

LogLevels == {"INFO", "debug", "bogus"}

\* loglevel.upper()
upper(loglevel) ==
  CASE loglevel = "debug" -> "DEBUG"
    [] loglevel = "bogus" -> "BOGUS"
    [] OTHER -> loglevel

\* the level names setLevel accepts; it raises ValueError for any other
level_names == {"CRITICAL", "ERROR", "WARNING", "INFO", "DEBUG", "NOTSET"}

\* `if not logger.handlers`
has_handlers_mut_never(handlers) == FALSE

has_handlers(handlers) == handlers # <<>>

\* the body shared by get_logger and get_task_logger: setLevel on the logger,
\* then a StreamHandler with the level and the format when it has none
configure(lg, name, loglevel, format) ==
  IF upper(loglevel) \notin level_names
  THEN [lg EXCEPT !.calls = @ + 1, !.last = [kind |-> "ValueError", name |-> name]]
  ELSE [lg EXCEPT
          !.calls = @ + 1,
          !.level[name] = upper(loglevel),
          !.handlers[name] = IF has_handlers(@) THEN @
                             ELSE Append(@, [level |-> upper(loglevel), format |-> format]),
          !.returned = @ \cup {name},
          !.last = [kind |-> "returned", name |-> name]]

InitLogs ==
  /\ logs = [pc |-> "imported", level |-> [n \in LoggerNames |-> "NOTSET"],
             handlers |-> [n \in LoggerNames |-> <<>>], returned |-> {},
             calls |-> 0, last |-> [kind |-> "none"]]
  /\ AclIdle /\ ReqIdle
  /\ OtherIdle /\ TokIdle /\ EncIdle /\ ViewIdle
  /\ DescIdle /\ OvfIdle /\ KeepIdle /\ VcIdle

notLogs == <<aclVars, reqVars, other, tok, enc, view, desc, ovf, keep, vc>>

get_logger ==
  /\ logs.pc # "idle"
  /\ logs.calls < MaxCalls
  /\ \E name \in LoggerNames, loglevel \in LogLevels :
       logs' = configure(logs, name, loglevel, "%(message)s")
  /\ UNCHANGED notLogs

\* the LoggerAdapter it returns wraps the logger named task_id
get_task_logger ==
  /\ logs.pc # "idle"
  /\ logs.calls < MaxCalls
  /\ \E task_id \in LoggerNames, loglevel \in LogLevels :
       logs' = configure(logs, task_id, loglevel, "%(asctime)s [%(txn_id)s] [%(task_id)s]: %(message)s")
  /\ UNCHANGED notLogs

NextLogs == get_logger \/ get_task_logger

SpecLogs == InitLogs /\ [][NextLogs]_vars

\* ================================================================ claims
Count(name) == Cardinality({n \in 1..Len(log) : log[n].ev = name})

\* the request got its token and no verification call failed
Passed(L) == cred.kind = "valid" /\ (L.verify => verifier.kind = "ok")

Denied403(name) ==
  [kind |-> "tuple", status |-> 403,
   body |-> <<"error", "user ", name, " does not have access">>, link |-> <<>>]

\* C1: with the token acquired and the verification passed, a handler under a
\* single requires layer is invoked exactly when acl_in_token(token, rule) is
\* true; when it is false the handler is not invoked and the response is the
\* 403 naming the token's username.
C1_RequiresInvokesIffMatch ==
  (pc = "done" /\ Len(layers) = 1 /\ layers[1].kind = "requires" /\ Passed(layers[1]))
    => LET m == acl_in_token(cred.token, layers[1].rule).ret
       IN /\ (Count("func") = 1) <=> (m = "True")
          /\ (m = "False") =>
               /\ Count("func") = 0
               /\ response = Denied403(ValueOf(cred.token.username))

C1_Witness ==
  /\ pc = "done" /\ Len(layers) = 1 /\ layers[1].kind = "requires"
  /\ cred.kind = "valid" /\ layers[1].verify /\ verifier.kind = "ok"
  /\ acl_in_token(cred.token, layers[1].rule).ret = "False"
  /\ response.status = 403
  /\ Count("func") = 0

\* the same decorator arguments given to the other decorator, on the same request
Twin(L) ==
  IF L.kind = "requires"
  THEN deny_inner([L EXCEPT !.kind = "deny"], 1, NoKwargs, cred, verifier)
  ELSE requires_inner([L EXCEPT !.kind = "requires"], 1, NoKwargs, cred, verifier)

\* C2: requires and deny are inverses on the same token and rule: the one
\* invokes the handler exactly when the other returns the 403, and the 403 is
\* the same response in both.
C2_RequiresDenyInverse ==
  (pc = "done" /\ Len(layers) = 1 /\ Passed(layers[1]))
    => LET twin == Twin(layers[1])
           denial == Denied403(ValueOf(cred.token.username))
       IN /\ (Count("func") = 1) <=> (twin.next = "return" /\ twin.resp = denial)
          /\ (response = denial) <=> (twin.next = "func")
          /\ Count("func") = 1 \/ response = denial

C2_Witness ==
  /\ pc = "done" /\ Len(layers) = 1 /\ layers[1].kind = "deny" /\ Passed(layers[1])
  /\ layers[1].rule.username.tag = "scalar"
  /\ response.status = 403
  /\ Twin(layers[1]).next = "func"

Match(i) == acl_in_token(cred.token, layers[i].rule).ret
Refuses(i) ==
  \/ layers[i].kind = "requires" /\ Match(i) # "True"
  \/ layers[i].kind = "deny" /\ Match(i) = "True"
AllOfKind(kind) == \A i \in 1..Len(layers) : layers[i].kind = kind
NoVerifyFailure ==
  cred.kind = "valid" /\ (verifier.kind = "ok" \/ \A i \in 1..Len(layers) : ~layers[i].verify)

\* C4: under stacked requires layers the handler is invoked exactly when every
\* layer's rule matches, under stacked deny layers exactly when no layer's
\* rule matches; the layers run outermost first, and the first one that
\* refuses returns the 403 with no inner layer and no handler run.
C4_StackedLayers ==
  (pc = "done" /\ NoVerifyFailure)
    => LET refusing == {i \in 1..Len(layers) : Refuses(i)}
           ran == IF refusing = {} THEN Len(layers)
                  ELSE CHOOSE i \in refusing : \A j \in refusing : i <= j
           acls == SelectSeq(log, LAMBDA e : e.ev = "acl_in_token")
       IN /\ AllOfKind("requires") =>
               ((Count("func") = 1) <=> (\A i \in 1..Len(layers) : Match(i) = "True"))
          /\ AllOfKind("deny") =>
               ((Count("func") = 1) <=> (\A i \in 1..Len(layers) : Match(i) = "False"))
          /\ Len(acls) = ran
          /\ \A i \in 1..ran : acls[i].layer = i
          /\ refusing # {} =>
               /\ Count("func") = 0
               /\ response = Denied403(ValueOf(cred.token.username))
          /\ refusing = {} => Count("func") = 1 /\ response = HandlerResponse

C4_Witness ==
  /\ pc = "done" /\ NoVerifyFailure
  /\ Len(layers) >= 2 /\ AllOfKind("deny")
  /\ ~Refuses(1) /\ Refuses(2)
  /\ response.status = 403
  /\ Count("acl_in_token") = 2

\* C5: however many layers are stacked, a request calls get_token_from_header
\* exactly once, in the outermost layer; every inner layer is called with the
\* token that call attached.
C5_OneAcquisition ==
  /\ (pc = "done" \/ depth > 1) =>
       /\ Count("get_token_from_header") = 1
       /\ log[1] = [ev |-> "get_token_from_header", layer |-> 1]
  /\ depth > 1 => kwargs.token = <<cred.token>>

C5_Witness ==
  /\ pc = "done" /\ Len(layers) >= 2 /\ Count("func") = 1
  /\ Count("get_token_from_header") = 1
  /\ Count("acl_in_token") = Len(layers)

\* C6: a request makes at most one verification call whatever the layers'
\* verify flags, and exactly one when every layer verifies and the token was
\* acquired; a successful call marks the keyword arguments verified.
C6_OneVerification ==
  /\ Count("requests.get") <= 1
  /\ (pc = "done" /\ cred.kind = "valid" /\ \A i \in 1..Len(layers) : layers[i].verify)
       => Count("requests.get") = 1
  /\ (Count("requests.get") = 1 /\ verifier.kind = "ok") => kwargs.verified = TRUE

C6_Witness ==
  /\ pc = "done" /\ Len(layers) >= 2 /\ \A i \in 1..Len(layers) : layers[i].verify
  /\ Count("func") = 1
  /\ Count("requests.get") = 1

\* ------------------------------------------------------------ acl_in_token
Given(rule) == {i \in 1..Len(Keys) : rule[Keys[i]].tag # "none"}

\* the four comparisons, by the shapes of the criterion and of the claim
Overlaps(value, claim) ==
  IF value.tag = "scalar" /\ claim.tag = "list" THEN ValueOf(value) \in claim.l
  ELSE IF value.tag = "scalar" /\ claim.tag = "scalar" THEN ValueOf(value) = ValueOf(claim)
  ELSE IF value.tag = "list" /\ claim.tag = "list" THEN \E e \in value.l : e \in claim.l
  ELSE IF value.tag = "list" /\ claim.tag = "scalar" THEN ValueOf(claim) \in value.l
  ELSE FALSE

C8_NoCriterionIsFalse ==
  (aclPc = "returned" /\ Given(aclRule) = {})
    => aclOut = [ret |-> "False", seen |-> <<>>]

C8_Witness ==
  /\ aclPc = "returned" /\ aclRule = NoRule
  /\ aclToken.roles.tag = "absent"
  /\ aclOut.ret = "False"

First(rule) == CHOOSE i \in Given(rule) : \A j \in Given(rule) : i <= j
OnlyFirst(rule) ==
  [k \in DOMAIN rule |-> IF k = Keys[First(rule)] THEN rule[k] ELSE None]

Stops(token, rule, i) ==
  \/ token[Keys[i]].tag = "absent"
  \/ rule[Keys[i]].tag = "scalar"
  \/ Overlaps(rule[Keys[i]], token[Keys[i]])

C10_AbsentClaimIsNoMatch ==
  aclPc = "returned" => aclOut.ret \in {"True", "False"}

\* C11: when the token's signature has expired, requires and deny alike return
\* the 401 Response with body {"error": "No Valid Session Found"} and the Link
\* header <VLAB_URL/api/1/auth>; rel=authorization; no verification call is
\* made and the handler is not executed.
C11_ExpiredSessionIs401 ==
  cred.kind = "expired"
    => /\ Count("requests.get") = 0
       /\ Count("func") = 0
       /\ pc = "done" =>
            response = [kind |-> "Response", status |-> 401,
                        body |-> <<"error", "No Valid Session Found">>,
                        link |-> <<"<", VLAB_URL, "/api/1/auth", ">; rel=authorization">>]

C11_Witness ==
  /\ pc = "done" /\ cred.kind = "expired"
  /\ layers[1].kind = "deny" /\ layers[1].verify
  /\ response.status = 401
  /\ Count("get_token_from_header") = 1

\* C12: when decoding the token fails in any way other than an expired
\* signature, the response is the 401 with body
\* {"error": "Invalid auth token supplied"} and the handler is not invoked.
C12_InvalidTokenIs401 ==
  (pc = "done" /\ cred.kind = "invalid")
    => /\ response.kind # "exception"
       /\ response.status = 401
       /\ response.body = <<"error", "Invalid auth token supplied">>
       /\ Count("func") = 0

\* C13: on a request without the X-Auth header get_token_from_header raises
\* ValueError, and requires and deny answer with the 401 whose body is
\* {"error": <the error's message>}.
C13_MissingHeaderIs401 ==
  (pc = "done" /\ cred.kind = "missing")
    => /\ get_token_from_header(cred).raised = "ValueError"
       /\ response.kind # "exception"
       /\ response.status = 401
       /\ Len(response.body) = 2
       /\ response.body[1] = "error"

\* C14: every failure while authenticating ends in a well-formed HTTP response
\* (401, 403 or the verifier's own status); no exception leaves the decorator.
C14_EveryFailureIsAResponse ==
  (pc = "done" /\ Count("func") = 0)
    => /\ response.kind # "exception"
       /\ response.status \in {401, 403, verifier.status}

\* C15 as stated: on the allow path the handler is called exactly once, with
\* the caller's positional and keyword arguments unchanged plus the decoded
\* token under the keyword token, and its return value is returned unchanged.
C15_OnlyTokenAdded ==
  (pc = "done" /\ Count("func") > 0)
    => /\ called = <<[args |-> caller.args,
                      kwargs |-> [token |-> <<cred.token>>, verified |-> FALSE,
                                  extra |-> caller.extra]]>>
       /\ response = HandlerResponse

\* C15, amended: on the allow path the handler is called exactly once, with
\* the caller's positional and keyword arguments unchanged plus the decoded
\* token under the keyword token and, exactly when the layer made the
\* verification call, True under the keyword verified; its return value is
\* returned unchanged.
C15_TokenAndVerifiedAdded ==
  (pc = "done" /\ Count("func") > 0)
    => /\ called = <<[args |-> caller.args,
                      kwargs |-> [token |-> <<cred.token>>,
                                  verified |-> (Count("requests.get") > 0),
                                  extra |-> caller.extra]]>>
       /\ Count("func") = 1
       /\ response = HandlerResponse

C15_Witness ==
  /\ pc = "done" /\ Count("func") = 1
  /\ caller = [args |-> <<"self">>, extra |-> <<"vm_name">>]
  /\ layers[1].verify
  /\ called[1].kwargs.verified
  /\ response = HandlerResponse

\* the same layers serving one request with nothing else in flight
RECURSIVE Alone(_, _, _, _, _)
Alone(i, kw, c, v, lg) ==
  IF i = Len(layers) + 1
  THEN [response |-> HandlerResponse, log |-> Append(lg, Event("func", i)),
        called |-> <<[args |-> <<>>, kwargs |-> kw]>>]
  ELSE LET r == IF layers[i].kind = "requires"
                THEN requires_inner(layers[i], i, kw, c, v)
                ELSE deny_inner(layers[i], i, kw, c, v)
       IN IF r.next = "func"
          THEN Alone(i + 1, r.kwargs, c, v, lg \o r.events)
          ELSE [response |-> r.resp, log |-> lg \o r.events, called |-> <<>>]

CountIn(lg, name) == Cardinality({n \in 1..Len(lg) : lg[n].ev = name})

\* C16: of two requests with different credentials in flight through the same
\* decorated handler, each ends as it would alone: its response, the calls it
\* makes and the token its handler receives depend on its own credential and
\* its own verifier answer only, and each makes its own single acquisition and
\* at most one verification call of its own.
C16_RequestsAreIndependent ==
  /\ pc = "done" =>
       /\ [response |-> response, log |-> log, called |-> called]
            = Alone(1, NoKwargs, cred, verifier, <<>>)
       /\ Count("get_token_from_header") = 1
       /\ \A n \in 1..Len(called) : called[n].kwargs.token = <<cred.token>>
  /\ other.pc = "done" =>
       /\ [response |-> other.response, log |-> other.log, called |-> other.called]
            = Alone(1, NoKwargs, other.cred, other.verifier, <<>>)
       /\ CountIn(other.log, "get_token_from_header") = 1
       /\ CountIn(other.log, "requests.get") <= 1
       /\ \A n \in 1..Len(other.called) : other.called[n].kwargs.token = <<other.cred.token>>

C16_Witness ==
  /\ pc = "done" /\ other.pc = "done"
  /\ cred.kind = "valid" /\ other.cred.kind = "valid"
  /\ cred.token.username # other.cred.token.username
  /\ Len(layers) = 2
  /\ Count("func") = 1
  /\ other.response.status = 403
  /\ CountIn(other.log, "requests.get") = 1 /\ Count("requests.get") = 1

\* the client's address: the first X-Forwarded-For entry, else remote_addr
ClientAddr(r) == IF r.forwarded # <<>> THEN r.forwarded[1] ELSE r.remote_addr

\* C17: get_token_from_header returns the claims of a version 2 token only
\* when its client_ip claim equals the client's address; otherwise it raises
\* ValueError and returns no claims.
C17_V2TokenBoundToClient ==
  (tok.pc = "read" /\ tok.issuer = "auth" /\ tok.expires_at = DefaultExpiresAt)
    => IF tok.client_ip = ClientAddr(tok.request)
       THEN tok.out = [raised |-> "none",
                       claims |-> <<v2_token_claims(tok.client_ip, tok.expires_at)>>]
       ELSE tok.out = [raised |-> "ValueError", claims |-> <<>>]

\* the token the decorators see for decoded claims
TokenOf(c) ==
  [username |-> Scalar(c.username), memberOf |-> List({c.memberOf[n] : n \in 1..Len(c.memberOf)}),
   roles |-> Absent, version |-> Scalar(c.version)]

CredOf(out) ==
  IF out.raised = "none" THEN [kind |-> "valid", token |-> TokenOf(out.claims[1])]
  ELSE IF out.raised = "ExpiredSignatureError" THEN [kind |-> "expired", token |-> NoToken]
  ELSE [kind |-> "invalid", token |-> NoToken]

Connected(a) == a.kind # "refused"
EncDone == enc.pc \in {"returned", "raised"}
InProduction == enc.production \in {"true", "beta"}

\* C19 as stated: in production get_encryption_data makes at most 10 attempts,
\* retrying after each connection error; it returns the key, algorithm and
\* format of the first attempt that connects, with no attempt after it, and
\* raises RuntimeError when all 10 attempts fail.
C19_FirstConnectionReturns ==
  InProduction
    => /\ enc.attempts <= 10
       /\ \A n \in 1..(Len(enc.answers) - 1) : ~Connected(enc.answers[n])
       /\ EncDone =>
            IF \E n \in 1..Len(enc.answers) : Connected(enc.answers[n])
            THEN enc.out = [kind |-> "return", value |-> enc.answers[Len(enc.answers)].data]
            ELSE enc.out.kind = "RuntimeError" /\ enc.attempts = 10

\* C19, amended: in production get_encryption_data makes at most 10 attempts,
\* sleeping and retrying after each connection error; the first attempt that
\* connects is the last one made: with a success status and the key document
\* its key, algorithm and format are returned, otherwise (an HTTP error
\* status, a body that is not JSON) the error of that response is raised;
\* RuntimeError is raised exactly when all 10 attempts fail to connect.
C19_RetryUntilConnected ==
  InProduction
    => /\ enc.attempts <= 10
       /\ Len(enc.answers) = enc.attempts
       /\ \A n \in 1..(Len(enc.answers) - 1) : ~Connected(enc.answers[n])
       /\ enc.pc = "loop" => enc.slept = enc.attempts
       /\ EncDone =>
            LET last == enc.answers[Len(enc.answers)]
            IN CASE last.kind = "ok" -> enc.out = [kind |-> "return", value |-> last.data]
                 [] last.kind = "http_error" -> enc.out.kind = "HTTPError"
                 [] last.kind = "not_json" -> enc.out.kind = "ValueError"
                 [] OTHER -> enc.out.kind = "RuntimeError" /\ enc.attempts = 10

C19_Witness ==
  /\ enc.production = "beta" /\ enc.pc = "returned"
  /\ enc.attempts = 10 /\ enc.slept = 9
  /\ enc.out.value.key = "PUBLIC KEY"

\* C20: after_request turns every response whose body is a JSON object into
\* one whose body has the keys error, content and params, each with the value
\* the handler supplied or else its default (null, {}, the request's query
\* arguments), and sets Content-Type to application/json; a response whose
\* body is not JSON is returned with body and status unchanged.
C20_ResponseShape ==
  view.pc = "sent"
    => LET before == view.response
           after == view.out.response
       IN /\ before.body.kind = "object" =>
               /\ view.out.raised = "none"
               /\ after.body.kind = "object"
               /\ after.body.data["error"] =
                    IF before.body.data["error"] # Missing THEN before.body.data["error"] ELSE "null"
               /\ after.body.data["content"] =
                    IF before.body.data["content"] # Missing THEN before.body.data["content"] ELSE "{}"
               /\ after.body.data["params"] =
                    IF before.body.data["params"] # Missing THEN before.body.data["params"]
                    ELSE view.request.args
               /\ \A k \in {"error", "content", "params"} : after.body.data[k] # Missing
               /\ after.content_type = "application/json"
          /\ before.body.kind = "not_json" =>
               /\ view.out.raised = "none"
               /\ after.body = before.body
               /\ after.status_code = before.status_code

C20_Witness ==
  /\ view.pc = "sent"
  /\ view.response.body.kind = "object"
  /\ view.response.content_type = "text/html"
  /\ view.response.body.data["content"] = "set by the view"
  /\ view.response.body.data["error"] = Missing
  /\ view.request.args # "{}"
  /\ view.out.response.body.data["params"] = view.request.args
  /\ view.out.response.body.data["content"] = "set by the view"
  /\ view.out.response.content_type = "application/json"

\* the keywords given, as a set
Given21 == {desc.schemas[n] : n \in 1..Len(desc.schemas)}

\* C21: with the describe query argument the handler is not invoked and the
\* response is a 200 whose content has one entry for every method named by a
\* <method> or <method>_args keyword, and for no other; the entry has exactly
\* the keys body, response and args, body and args being the schema of the
\* respective keyword or {} and response the v1 schema, whatever the order
\* of the keywords.  Without the argument the handler runs and its result is
\* returned.
C21_DescribeSchema ==
  desc.pc = "done"
    => IF desc.asked
       THEN /\ desc.out.func = 0
            /\ desc.out.status = 200
            /\ \A m \in Methods :
                 IF <<m>> \in Given21 \/ <<m, "args">> \in Given21
                 THEN /\ Len(desc.out.content[m]) = 1
                      /\ DOMAIN desc.out.content[m][1] = {"body", "response", "args"}
                      /\ desc.out.content[m][1].body
                           = IF <<m>> \in Given21 THEN <<m>> ELSE <<>>
                      /\ desc.out.content[m][1].args
                           = IF <<m, "args">> \in Given21 THEN <<m, "args">> ELSE <<>>
                      /\ desc.out.content[m][1].response = "v1_RESPONSE"
                 ELSE desc.out.content[m] = <<>>
       ELSE desc.out.func = 1 /\ desc.out.kind = "handler"

C21_Witness ==
  /\ desc.pc = "done" /\ desc.asked
  /\ desc.schemas = << <<"post", "args">>, <<"get">>, <<"post">> >>
  /\ desc.out.content["post"][1].args = <<"post", "args">>
  /\ desc.out.content["post"][1].body = <<"post">>
  /\ desc.out.content["get"][1].args = <<>>

\* C22: get_ovf_lease polls the lease at most timeout times; it returns the
\* lease at the first poll that finds it ready and never a lease found in
\* another state; it raises RuntimeError when none of the timeout polls found
\* it ready, at once when timeout is 0.
C22_LeasePolling ==
  /\ ovf.polls <= ovf.timeout
  /\ Len(ovf.seen) = ovf.polls
  /\ \A n \in 1..(Len(ovf.seen) - 1) : ovf.seen[n] # "ready"
  /\ ovf.pc = "returned" => ovf.out = "lease" /\ ovf.seen[Len(ovf.seen)] = "ready"
  /\ (ovf.pc \in {"loop", "sleep", "raised"}) => \A n \in 1..Len(ovf.seen) : ovf.seen[n] # "ready"
  /\ ovf.pc = "raised" => ovf.out = "RuntimeError" /\ ovf.polls = ovf.timeout
  /\ (ovf.pc = "raised" /\ ovf.timeout = 0) => ovf.polls = 0 /\ ovf.slept = 0

C22_Witness ==
  /\ ovf.pc = "returned" /\ ovf.timeout = MaxTimeout /\ ovf.polls = MaxTimeout
  /\ ovf.seen[1] = "error" /\ ovf.seen[2] = "initializing"
  /\ ovf.out = "lease"

\* C23: run ends with keep_running False as soon as a ping finds the lease
\* done or a call on the lease raises, no exception leaves run, and until then
\* every iteration pings the lease once.
C23_RunStopsOnDoneOrError ==
  /\ keep.tpc = "ended" => ~keep.keep_running
  /\ ~keep.escaped
  /\ keep.last \in {"ping raised", "state raised", "found done"}
       => keep.tpc = "ended" /\ ~keep.keep_running
  /\ keep.pings = keep.iters - (IF keep.tpc \in {"sleep", "ping"} THEN 1 ELSE 0)

C23_Witness ==
  /\ keep.tpc = "ended" /\ keep.last = "found done"
  /\ keep.pings = 2 /\ keep.mpc = "inside"
  /\ ~keep.keep_running

\* C29: once __exit__ has called HttpNfcLeaseComplete, the keep-alive thread
\* sends no further HttpNfcLeaseProgress to the lease.
C29_NoPingAfterComplete ==
  keep.pingsAfterComplete = 0

\* C30: after __exit__ has cleared keep_running the thread of run() pings at
\* most once more and ends, whether its lease calls return or raise; the join
\* of __exit__ then returns, and the thread has ended when it does.
C30_ExitCompletes ==
  /\ [](keep.pingsAfterClear <= 1)
  /\ [](keep.mpc = "joined" => keep.tpc = "ended")
  /\ (keep.mpc = "cleared") ~> (keep.tpc = "ended")
  /\ (keep.mpc = "completed") ~> (keep.mpc = "joined")

C30_Witness ==
  /\ keep.mpc = "joined" /\ keep.tpc = "ended"
  /\ keep.pingsAfterClear = 1
  /\ keep.last = "not done"

\* C24: create_folder calls CreateFolder on the parent once when the parent has
\* no child with the requested name and not at all when it has one, so no
\* parent comes to hold two folders of one name; when no folder has the
\* parent's name it raises ValueError and creates nothing.
C24_LookBeforeLeap ==
  /\ \A i, j \in DOMAIN vc.folders :
        (vc.folders[i].parent = vc.folders[j].parent /\ vc.folders[i].name = vc.folders[j].name)
          => i = j
  /\ vc.pc # "idle" /\ vc.last.kind = "returned" =>
       LET l == vc.last
           exists == \E i \in DOMAIN l.before :
                       l.before[i].parent = l.parent /\ l.before[i].name = l.new_folder
       IN /\ l.parent \in DOMAIN l.before /\ l.before[l.parent].name = l.parent_dir
          /\ l.creates = (IF exists THEN 0 ELSE 1)
          /\ vc.folders = IF exists THEN l.before
                           ELSE Append(l.before, [name |-> l.new_folder, parent |-> l.parent])
  /\ vc.pc # "idle" /\ vc.last.kind = "ValueError" =>
       /\ \A i \in DOMAIN vc.last.before : vc.last.before[i].name # vc.last.parent_dir
       /\ vc.last.creates = 0
       /\ vc.folders = vc.last.before

C24_Witness ==
  /\ vc.pc # "idle" /\ vc.calls = 3
  /\ vc.last.kind = "returned" /\ vc.last.creates = 0
  /\ Len(vc.folders) = 3

\* C25: after any sequence of get_logger and get_task_logger calls every
\* logger they returned has exactly one handler, and no logger has two.
C25_OneHandler ==
  logs.pc # "idle" =>
    /\ \A n \in logs.returned : Len(logs.handlers[n]) = 1
    /\ \A n \in LoggerNames : Len(logs.handlers[n]) <= 1

C25_Witness ==
  /\ logs.pc # "idle" /\ logs.calls = 3
  /\ logs.last = [kind |-> "returned", name |-> "vlab"]
  /\ Len(logs.handlers["vlab"]) = 1
  /\ logs.handlers["vlab"][1].level # logs.level["vlab"]

\* C26: under requires(username=U) or requires(memberOf=G), version left at
\* its default, the handler is invoked only for tokens whose username is (in)
\* U, or whose memberOf contains or intersects G; every other token gets the
\* 403 naming its username.
C26_CriterionRestricts ==
  (/\ pc = "done" /\ layers[1].kind = "requires" /\ Passed(layers[1])
   /\ layers[1].rule.version = Scalar(AUTH_TOKEN_VERSION)
   /\ (layers[1].rule.username # None) # (layers[1].rule.memberOf # None))
    => LET rule == layers[1].rule
           meets == IF rule.username # None
                    THEN Overlaps(rule.username, cred.token.username)
                    ELSE Overlaps(rule.memberOf, cred.token.memberOf)
       IN /\ Count("func") = 1 => meets
          /\ ~meets => response = Denied403(ValueOf(cred.token.username))

\* C27: under requires with version left at its default the handler is
\* invoked only for tokens whose version claim is AUTH_TOKEN_VERSION,
\* whatever username and memberOf criteria are given with it.
C27_DefaultVersionEnforced ==
  (/\ pc = "done" /\ layers[1].kind = "requires"
   /\ layers[1].rule.version = Scalar(AUTH_TOKEN_VERSION))
    => (Count("func") = 1 => cred.token.version = Scalar(AUTH_TOKEN_VERSION))

\* C28: the decision and the number of verification calls of a request depend
\* on its X-Auth header and the verifier's answer only: they are those of the
\* same request made with no keyword arguments, whatever token or verified
\* keyword the caller passed.
C28_IdentityFromCredentialOnly ==
  pc = "done" =>
    LET plain == Alone(1, NoKwargs, cred, verifier, <<>>)
    IN /\ response = plain.response
       /\ Count("requests.get") = CountIn(plain.log, "requests.get")
       /\ Count("func") = CountIn(plain.log, "func")

====
